---- MODULE Spec2Model ----
(***************************************************************************)
(* The paginating ISS client of amoex (src/amoex/client.py): the cursor    *)
(* interpreter _cursor_block_size, the single-page fetch ISSClient.get     *)
(* with _make_query, the async generator ISSClient._iterator_maker and     *)
(* its consumer ISSClient.get_all.                                         *)
(*                                                                         *)
(* A Table is a sequence of rows, a row a record.  A TablesDict is a       *)
(* Python dict, which keeps insertion order (next(iter(d)) is its first    *)
(* key): it is modelled as a sequence of [name, rows] entries with         *)
(* pairwise different names.  Rows of history.cursor are records with the  *)
(* integer fields INDEX, TOTAL and PAGESIZE (the protocol's convention).   *)
(* Every value of a TablesDict is a list of rows (the declared type of     *)
(* get's result), so respond.get("history.cursor") is not None is the      *)
(* presence of the key.  Python integers are unbounded, so no width is     *)
(* modelled; INDEX, TOTAL and PAGESIZE range over naturals.                *)
(***************************************************************************)
EXTENDS Integers, Sequences, FiniteSets, TLC

\* ------------------------------------------------------------- bounds
\* Largest dataset (rows) a truthful model server holds.
MaxRows == 5
\* Largest PAGESIZE / TOTAL an arbitrary (untrusted) server reports.
MaxPageSize == 2
MaxTotal == 3
\* Most GETs a sequence issues against an untrusted server (its offsets are
\* unbounded otherwise).
MaxPages == 2
\* Largest offset handed to _cursor_block_size when it is checked alone.
MaxStart == 1
\* Most GETs a sequence issues against an endless server (it would never stop).
MaxEndlessPages == 4

\* ------------------------------------------------------------- tables
CURSOR == "history.cursor"
DATA == "data"
EXTRA == "extra"

Row(i) == [id |-> i]
Entry(n, r) == [name |-> n, rows |-> r]
CursorRow(i, t, p) == [INDEX |-> i, TOTAL |-> t, PAGESIZE |-> p]

\* key in dict
HasTable(d, n) == \E k \in DOMAIN d : d[k].name = n
\* dict[key], for a key that is present
TableOf(d, n) == d[CHOOSE k \in DOMAIN d : d[k].name = n].rows
\* Mutant of the pop: the entry stays in the dict.
NotPopped(d, n) == d

\* dict.pop(key): the other entries keep their order
Popped(d, n) == SelectSeq(d, LAMBDA e : e.name # n)

\* ------------------------------------------------------------- errors
Raised(t, m) == [type |-> t, msg |-> m]
NoError == Raised("none", "")
CursorError == Raised("ISSMoexError", "Incorrect data in history.cursor")
ConnectionError == Raised("ISSMoexError", "Connection error")
HTTPError == Raised("ISSMoexError", "HTTP error")
\* response.json() on a body that is not JSON: not caught by get
JSONDecodeError == Raised("JSONDecodeError", "")
\* cursor, *wrong_data = [] : not enough values to unpack
UnpackError == Raised("ValueError", "not enough values to unpack")
\* next(iter({})) inside an async generator: StopIteration becomes RuntimeError
EmptyPageError == Raised("RuntimeError", "async generator raised StopIteration")

Returns(v) == [ok |-> TRUE, value |-> v, error |-> NoError]
Raises(e) == [ok |-> FALSE, value |-> 0, error |-> e]

\* ------------------------------------------------- _cursor_block_size
\* Mutants of _cursor_block_size: the page size returned whatever TOTAL is;
\* the page size alone compared with TOTAL; <= in place of <.
CursorBlockSizeNoTotal(start_, cursor_table_) ==
    IF Len(cursor_table_) = 0 THEN Raises(UnpackError)
    ELSE IF Len(cursor_table_) > 1 \/ cursor_table_[1].INDEX # start_
         THEN Raises(CursorError)
         ELSE Returns(cursor_table_[1].PAGESIZE)

CursorBlockSizeNoStart(start_, cursor_table_) ==
    IF Len(cursor_table_) = 0 THEN Raises(UnpackError)
    ELSE IF Len(cursor_table_) > 1 \/ cursor_table_[1].INDEX # start_
         THEN Raises(CursorError)
         ELSE IF cursor_table_[1].PAGESIZE < cursor_table_[1].TOTAL
              THEN Returns(cursor_table_[1].PAGESIZE)
              ELSE Returns(0)

CursorBlockSizeLeq(start_, cursor_table_) ==
    IF Len(cursor_table_) = 0 THEN Raises(UnpackError)
    ELSE IF Len(cursor_table_) > 1 \/ cursor_table_[1].INDEX # start_
         THEN Raises(CursorError)
         ELSE IF start_ + cursor_table_[1].PAGESIZE <= cursor_table_[1].TOTAL
              THEN Returns(cursor_table_[1].PAGESIZE)
              ELSE Returns(0)

CursorBlockSize(start_, cursor_table_) ==
    IF Len(cursor_table_) = 0 THEN Raises(UnpackError)
    ELSE LET cursor == Head(cursor_table_)
             wrong_data == Tail(cursor_table_)
         IN  IF wrong_data # <<>> \/ cursor.INDEX # start_
             THEN Raises(CursorError)
             ELSE LET block_size_ == cursor.PAGESIZE
                  IN  IF start_ + block_size_ < cursor.TOTAL
                      THEN Returns(block_size_)
                      ELSE Returns(0)

\* ------------------------------------------------------- _make_query
\* WebQuery: a function from parameter names to values.
EmptyQuery == [k \in {} |-> ""]
FixedQuery == ("iss.json" :> "extended") @@ ("iss.meta" :> "off")
\* make_query(table="data") of request_helpers
OnlyQuery == ("iss.only" :> "data,history.cursor")

\* start: int | None
NoStart == [none |-> TRUE, value |-> 0]
Offset(n) == [none |-> FALSE, value |-> n]
\* if start: (None and 0 are false)
Truthy(start_) == ~start_.none /\ start_.value # 0

\* Mutant of _make_query: if start is not None in place of if start.
MakeQueryOfNotNone(query_, start_) ==
    LET merged == query_ @@ FixedQuery
    IN  IF ~start_.none THEN ("start" :> start_.value) @@ merged ELSE merged

\* {"iss.json": ..., "iss.meta": ...} | self._query : the right operand wins
MakeQueryOf(query_, start_) ==
    LET merged == query_ @@ FixedQuery
    IN  IF Truthy(start_) THEN ("start" :> start_.value) @@ merged ELSE merged

\* self._make_query(start) for the integer start of _iterator_maker
MakeQuery(query_, start_) == MakeQueryOf(query_, Offset(start_))

\* The offset the server reads from the wire: no start means from the beginning.
WireStart(q) == IF "start" \in DOMAIN q THEN q["start"] ELSE 0

\* ------------------------------------------------------- the ISS server
\* The environment: what the endpoint behind self._url answers to a GET.
\*   kind "cursor": a truthful cursor-bearing endpoint holding Sum(sizes) rows
\*                  of every table in names, served as consecutive pages of
\*                  the sizes given; each page's cursor reports INDEX = the
\*                  offset asked, TOTAL = the number of rows, and PAGESIZE =
\*                  pagesize when that is positive (the fixed page size ISS
\*                  reports), else the number of rows on the page;
\*   kind "plain":  a truthful cursor-less endpoint, one table, the same pages
\*                  and an empty table from the end of the data on;
\*   kind "any":    an untrusted endpoint, any page of AnyPages on every GET;
\*   kind "endless": a cursor-less endpoint that answers every offset with a
\*                  non-empty table.
RECURSIVE Sum(_)
Sum(s) == IF s = <<>> THEN 0 ELSE Head(s) + Sum(Tail(s))

RECURSIVE Compositions(_)
Compositions(n) ==
    IF n = 0 THEN {<<>>}
    ELSE UNION {{<<k>> \o c : c \in Compositions(n - k)} : k \in 1..n}

CeilDiv(t, p) == (t + p - 1) \div p
Uniform(t, p) == [k \in 1..CeilDiv(t, p) |-> IF k * p <= t THEN p ELSE t - (k - 1) * p]

Server(kind_, sizes_, names_, pagesize_) ==
    [kind |-> kind_, sizes |-> sizes_, names |-> names_, pagesize |-> pagesize_]

\* rows a+1 .. b of table n (ids of different tables differ in sign)
Rows(n, a, b) == [k \in 1..(b - a) |-> Row(IF n = DATA THEN a + k ELSE -(a + k))]

PageEnd(sizes_, off) ==
    LET ends == {Sum(SubSeq(sizes_, 1, k)) : k \in 0..Len(sizes_)}
        later == {e \in ends : e > off}
    IN  IF later = {} THEN Sum(sizes_)
        ELSE CHOOSE e \in later : \A f \in later : e <= f

TruthfulPage(srv, off) ==
    LET end == PageEnd(srv.sizes, off)
        n == IF end > off THEN end - off ELSE 0
        tables == [k \in DOMAIN srv.names |-> Entry(srv.names[k], Rows(srv.names[k], off, end))]
    IN  IF srv.kind = "plain" THEN tables
        ELSE tables \o <<Entry(CURSOR, <<CursorRow(off, Sum(srv.sizes),
                                   IF srv.pagesize > 0 THEN srv.pagesize ELSE n)>>)>>

AnyTables(off) ==
    {<<>>, <<Entry(EXTRA, <<>>), Entry(DATA, Rows(DATA, off, off + 1))>>}
    \cup {<<Entry(DATA, Rows(DATA, off, off + n))>> : n \in 0..MaxPageSize}
    \cup {<<Entry(DATA, Rows(DATA, off, off + n)), Entry(EXTRA, Rows(EXTRA, off, off + 1))>> : n \in 0..1}

AnyCursorTables(off) ==
    {<<>>,
     <<CursorRow(off + 1, MaxTotal, 1)>>,
     <<CursorRow(off, MaxTotal, 1), CursorRow(off + 1, MaxTotal, 1)>>}
    \cup {<<CursorRow(off, t, p)>> : t \in 0..MaxTotal, p \in 0..MaxPageSize}

AnyPages(off) ==
    AnyTables(off)
    \cup {t \o <<Entry(CURSOR, c)>> : t \in AnyTables(off), c \in AnyCursorTables(off)}

EndlessPages(off) ==
    {<<Entry(DATA, Rows(DATA, off, off + n))>> : n \in 1..MaxPageSize}

ServerPages(srv, off) ==
    IF srv.kind = "any" THEN AnyPages(off)
    ELSE IF srv.kind = "endless" THEN EndlessPages(off)
    ELSE {TruthfulPage(srv, off)}

\* The end-to-end scenario of three pages of 100, 100 and 50 rows.
Scenario250 == <<100, 100, 50>>

Servers ==
    {Server("cursor", s, n, 0) :
        s \in {Scenario250} \cup UNION {Compositions(t) : t \in 0..MaxRows},
        n \in {<<DATA>>, <<DATA, EXTRA>>}}
    \cup {Server("cursor", Uniform(t, p), <<DATA>>, p) : t \in 0..MaxRows, p \in 1..MaxRows}
    \cup {Server("plain", s, <<DATA>>, 0) : s \in UNION {Compositions(t) : t \in 0..MaxRows}}
    \cup {Server("any", <<>>, <<>>, 0)}

BaseQueries == {EmptyQuery, OnlyQuery}

\* --------------------------------------------------- the HTTP exchange
\* What httpx does with one GET: the request fails in transport
\* (httpx.RequestError), or a response arrives with a status code and a body.
\* A body is text that response.json() parses or not; a JSON value is null, a
\* number, an object (here: a mapping of table names to tables) or an array.
JValue(json_, items_, tables_) == [json |-> json_, items |-> items_, tables |-> tables_]
JInvalid == JValue("invalid", <<>>, <<>>)
JNull == JValue("null", <<>>, <<>>)
JNumber == JValue("number", <<>>, <<>>)
JObject(tables_) == JValue("object", <<>>, tables_)
JArray(items_) == JValue("array", items_, <<>>)

Transport == [kind |-> "transport", status |-> 0, body |-> JNull]
Answer(status_, body_) == [kind |-> "answer", status |-> status_, body |-> body_]
NoResponse == [kind |-> "none", status |-> 0, body |-> JNull]

\* response.raise_for_status(): HTTPStatusError unless the status is 2xx
IsSuccess(status_) == status_ \div 100 = 2

Request(url_, params_) == [url |-> url_, params |-> params_]

\* ISSMoexError(message, err.request.url): the error carries the request's URL
\* (the address with the query parameters)
WithUrl(e, request_) == [type |-> e.type, msg |-> e.msg, url |-> request_]

\* raw_respond[1] on a value that is not subscriptable, an object without the
\* key 1, an array of fewer than two elements: none is caught by get
TypeError == Raised("TypeError", "object is not subscriptable")
KeyError == Raised("KeyError", "1")
IndexError == Raised("IndexError", "list index out of range")

\* Mutant of get: a request that failed in transport is sent once more.
GetRetrying(url_, query_, start_, response_) ==
    LET request == Request(url_, MakeQueryOf(query_, start_))
    IN  IF response_.kind = "transport"
        THEN [sent |-> <<request, request>>, out |-> Raises(WithUrl(ConnectionError, request))]
        ELSE IF ~IsSuccess(response_.status)
        THEN [sent |-> <<request>>, out |-> Raises(WithUrl(HTTPError, request))]
        ELSE [sent |-> <<request>>, out |-> Returns(response_.body)]

\* ISSClient.get(start) of a client with self._url and self._query, for what
\* httpx does with the request: the requests sent and the outcome.
Get(url_, query_, start_, response_) ==
    LET request == Request(url_, MakeQueryOf(query_, start_))
        raw_respond == response_.body
        out == IF response_.kind = "transport"
               THEN Raises(WithUrl(ConnectionError, request))
               ELSE IF ~IsSuccess(response_.status)
               THEN Raises(WithUrl(HTTPError, request))
               ELSE IF raw_respond.json = "invalid" THEN Raises(JSONDecodeError)
               ELSE IF raw_respond.json \in {"null", "number"} THEN Raises(TypeError)
               ELSE IF raw_respond.json = "object" THEN Raises(KeyError)
               ELSE IF Len(raw_respond.items) < 2 THEN Raises(IndexError)
               ELSE Returns(raw_respond.items[2])
    IN  [sent |-> <<request>>, out |-> out]

\* -------------------------------------------------------------- state
\* The pagination sequences (generator objects with their consumers).
Seqs == {"s1", "s2"}

VARIABLES
    pc,            \* where each sequence stands:
                   \*   "new"    its client is not constructed yet
                   \*   "idle"   client constructed, iteration not started
                   \*   "get"    suspended in await self.get(start): a GET is outstanding
                   \*   "yield"  suspended at yield: the consumer holds the page
                   \*   "next"   the consumer has handled the page and asks for the next
                   \*   "done"   the generator returned
                   \*   "failed" an exception left the generator
    query,         \* self._query of the sequence's client
    server,        \* the endpoint behind self._url
    start,         \* _iterator_maker's local start
    respond,       \* _iterator_maker's local respond (after the pop)
    cursor_table,  \* _iterator_maker's local cursor_table; present = is not None
    block_size,    \* _iterator_maker's local block_size
    all_data,      \* get_all's local all_data
    result,        \* what get_all gave its caller
    gets,          \* the wire queries of the GETs issued so far, in order
    pages,         \* the TablesDicts get returned so far, in order
    yielded,       \* the pages yielded so far, in order
    unit,          \* one call of _cursor_block_size on its own: arguments and outcome
    fetch,         \* one call of ISSClient.get on its own: the client, the argument,
                   \* the requests sent and the outcome
    extract        \* one call of get_table on its own: arguments and outcome

seqvars == <<pc, query, server, start, respond, cursor_table, block_size,
             all_data, result, gets, pages, yielded>>
vars == <<seqvars, unit, fetch, extract>>

None == [present |-> FALSE, rows |-> <<>>]
Some(t) == [present |-> TRUE, rows |-> t]

Pending == [kind |-> "pending", value |-> <<>>, error |-> NoError]
Returned(v) == [kind |-> "returned", value |-> v, error |-> NoError]
Failed(e) == [kind |-> "raised", value |-> <<>>, error |-> e]

NotCalled == [ok |-> FALSE, value |-> 0, error |-> NoError]
NoCall == [start |-> 0, cursor_table |-> <<>>, called |-> FALSE, out |-> NotCalled]
NoFetch == [url |-> "", query |-> EmptyQuery, start |-> NoStart, response |-> NoResponse,
            sent |-> <<>>, called |-> FALSE, out |-> NotCalled]
NoExtract == [table_dict |-> <<>>, table_name |-> "", called |-> FALSE, out |-> NotCalled]

InitSeqs ==
    /\ pc = [i \in Seqs |-> "new"]
    /\ query = [i \in Seqs |-> EmptyQuery]
    /\ server = [i \in Seqs |-> Server("any", <<>>, <<>>, 0)]
    /\ start = [i \in Seqs |-> 0]
    /\ respond = [i \in Seqs |-> <<>>]
    /\ cursor_table = [i \in Seqs |-> None]
    /\ block_size = [i \in Seqs |-> 0]
    /\ all_data = [i \in Seqs |-> <<>>]
    /\ result = [i \in Seqs |-> Pending]
    /\ gets = [i \in Seqs |-> <<>>]
    /\ pages = [i \in Seqs |-> <<>>]
    /\ yielded = [i \in Seqs |-> <<>>]

Init == InitSeqs /\ unit = NoCall /\ fetch = NoFetch /\ extract = NoExtract

\* ------------------------------------------------------------ get_all
\* Mutant of the merge: a page's rows put in front of those gathered so far.
ExtendedInFront(all, e) ==
    IF HasTable(all, e.name)
    THEN [k \in DOMAIN all |->
            IF all[k].name = e.name THEN Entry(e.name, e.rows \o all[k].rows) ELSE all[k]]
    ELSE Append(all, Entry(e.name, e.rows))

\* all_data.setdefault(table_name, []).extend(table_rows)
Extended(all, e) ==
    IF HasTable(all, e.name)
    THEN [k \in DOMAIN all |->
            IF all[k].name = e.name THEN Entry(e.name, all[k].rows \o e.rows) ELSE all[k]]
    ELSE Append(all, Entry(e.name, e.rows))

\* for table_name, table_rows in block.items(): ...
RECURSIVE Merged(_, _)
Merged(all, block) ==
    IF block = <<>> THEN all ELSE Merged(Extended(all, Head(block)), Tail(block))

\* ------------------------------------------------------------ actions
\* ISSClient(http_client, url, query)
ConstructWith(i, servers_, queries_) ==
    /\ pc[i] = "new"
    /\ \E srv \in servers_, q \in queries_ :
         /\ server' = [server EXCEPT ![i] = srv]
         /\ query' = [query EXCEPT ![i] = q]
    /\ pc' = [pc EXCEPT ![i] = "idle"]
    /\ UNCHANGED <<start, respond, cursor_table, block_size, all_data, result, gets, pages,
                   yielded, unit, fetch, extract>>

ConstructFrom(i, servers_) == ConstructWith(i, servers_, BaseQueries)

Construct(i) == ConstructFrom(i, Servers)

\* Mutant of start = 0: the offset kept in one place for all iterations, and
\* reset when an iteration begins.
StartShared(i) ==
    /\ pc[i] = "idle"
    /\ all_data' = [all_data EXCEPT ![i] = <<>>]
    /\ start' = [j \in Seqs |-> 0]
    /\ gets' = [gets EXCEPT ![i] = Append(@, MakeQuery(query[i], 0))]
    /\ pc' = [pc EXCEPT ![i] = "get"]
    /\ UNCHANGED <<query, server, respond, cursor_table, block_size, result, pages, yielded,
                   unit, fetch, extract>>

\* get_all is called: all_data = {}, the generator is made and asked for its
\* first page: start = 0 and the GET of get(0) is issued.
Start(i) ==
    /\ pc[i] = "idle"
    /\ all_data' = [all_data EXCEPT ![i] = <<>>]
    /\ start' = [start EXCEPT ![i] = 0]
    /\ gets' = [gets EXCEPT ![i] = Append(@, MakeQuery(query[i], 0))]
    /\ pc' = [pc EXCEPT ![i] = "get"]
    /\ UNCHANGED <<query, server, respond, cursor_table, block_size, result, pages, yielded, unit, fetch, extract>>

\* Mutant of the order of yield and check: the cursor is checked before the
\* page is yielded, and a page that fails the check is not yielded.
GetOkChecked(i) ==
    /\ pc[i] = "get"
    /\ \E page \in ServerPages(server[i], WireStart(gets[i][Len(gets[i])])) :
         LET cursor == IF HasTable(page, CURSOR) THEN Some(TableOf(page, CURSOR)) ELSE None
             rest == IF cursor.present THEN Popped(page, CURSOR) ELSE page
             r == IF cursor.present THEN CursorBlockSize(start[i], cursor.rows) ELSE Returns(0)
         IN  /\ pages' = [pages EXCEPT ![i] = Append(@, page)]
             /\ IF r.ok
                THEN /\ cursor_table' = [cursor_table EXCEPT ![i] = cursor]
                     /\ respond' = [respond EXCEPT ![i] = rest]
                     /\ yielded' = [yielded EXCEPT ![i] = Append(@, rest)]
                     /\ pc' = [pc EXCEPT ![i] = "yield"]
                     /\ UNCHANGED result
                ELSE /\ pc' = [pc EXCEPT ![i] = "failed"]
                     /\ result' = [result EXCEPT ![i] = Failed(r.error)]
                     /\ UNCHANGED <<cursor_table, respond, yielded>>
    /\ UNCHANGED <<query, server, start, block_size, all_data, gets, unit, fetch, extract>>

\* Mutant of the shape test: a page without a cursor table leaves the cursor
\* table of the page before in place.
GetOkStale(i) ==
    /\ pc[i] = "get"
    /\ \E page \in ServerPages(server[i], WireStart(gets[i][Len(gets[i])])) :
         LET cursor == IF HasTable(page, CURSOR) THEN Some(TableOf(page, CURSOR))
                       ELSE cursor_table[i]
             rest == IF HasTable(page, CURSOR) THEN Popped(page, CURSOR) ELSE page
         IN  /\ cursor_table' = [cursor_table EXCEPT ![i] = cursor]
             /\ respond' = [respond EXCEPT ![i] = rest]
             /\ pages' = [pages EXCEPT ![i] = Append(@, page)]
             /\ yielded' = [yielded EXCEPT ![i] = Append(@, rest)]
    /\ pc' = [pc EXCEPT ![i] = "yield"]
    /\ UNCHANGED <<query, server, start, block_size, all_data, result, gets, unit, fetch, extract>>

\* The outstanding GET is answered 2xx with a well-formed body: get returns
\* raw_respond[1]; the generator takes the cursor table out and yields the page.
GetOk(i) ==
    /\ pc[i] = "get"
    /\ \E page \in ServerPages(server[i], WireStart(gets[i][Len(gets[i])])) :
         LET cursor == IF HasTable(page, CURSOR) THEN Some(TableOf(page, CURSOR)) ELSE None
             rest == IF cursor.present THEN Popped(page, CURSOR) ELSE page
         IN  /\ cursor_table' = [cursor_table EXCEPT ![i] = cursor]
             /\ respond' = [respond EXCEPT ![i] = rest]
             /\ pages' = [pages EXCEPT ![i] = Append(@, page)]
             /\ yielded' = [yielded EXCEPT ![i] = Append(@, rest)]
    /\ pc' = [pc EXCEPT ![i] = "yield"]
    /\ UNCHANGED <<query, server, start, block_size, all_data, result, gets, unit, fetch, extract>>

\* The outstanding GET fails: get raises, the exception leaves the generator
\* and get_all.
FetchErrors == {ConnectionError, HTTPError, JSONDecodeError}

\* Mutant of the failure: the exception is swallowed and an empty page yielded.
GetFailSkipped(i) ==
    /\ pc[i] = "get"
    /\ cursor_table' = [cursor_table EXCEPT ![i] = None]
    /\ respond' = [respond EXCEPT ![i] = <<>>]
    /\ yielded' = [yielded EXCEPT ![i] = Append(@, <<>>)]
    /\ pc' = [pc EXCEPT ![i] = "yield"]
    /\ UNCHANGED <<query, server, start, block_size, all_data, result, gets, pages,
                   unit, fetch, extract>>

GetFail(i) ==
    /\ pc[i] = "get"
    /\ \E e \in FetchErrors : result' = [result EXCEPT ![i] = Failed(e)]
    /\ pc' = [pc EXCEPT ![i] = "failed"]
    /\ UNCHANGED <<query, server, start, respond, cursor_table, block_size, all_data, gets,
                   pages, yielded, unit, fetch, extract>>

\* get_all's loop body on the page it was handed.
Consume(i) ==
    /\ pc[i] = "yield"
    /\ all_data' = [all_data EXCEPT ![i] = Merged(@, respond[i])]
    /\ pc' = [pc EXCEPT ![i] = "next"]
    /\ UNCHANGED <<query, server, start, respond, cursor_table, block_size, result, gets,
                   pages, yielded, unit, fetch, extract>>

\* Mutants of the block size: a cursor-less page always taken as the last;
\* len(respond) in place of len(respond[table_name]).
PageBlockSizeOneShot(start_, cursor_, respond_) ==
    IF cursor_.present THEN CursorBlockSize(start_, cursor_.rows)
    ELSE IF respond_ = <<>> THEN Raises(EmptyPageError)
         ELSE Returns(0)

PageBlockSizeTableCount(start_, cursor_, respond_) ==
    IF cursor_.present THEN CursorBlockSize(start_, cursor_.rows)
    ELSE IF respond_ = <<>> THEN Raises(EmptyPageError)
         ELSE Returns(Len(respond_))

\* Mutant of the block size: a cursor-less page shorter than the largest page
\* taken as the last.
PageBlockSizeShortIsLast(start_, cursor_, respond_) ==
    IF cursor_.present THEN CursorBlockSize(start_, cursor_.rows)
    ELSE IF respond_ = <<>> THEN Raises(EmptyPageError)
         ELSE IF Len(respond_[1].rows) < MaxPageSize THEN Returns(0)
              ELSE Returns(Len(respond_[1].rows))

\* Mutant of the block size: the rows of a cursor page counted against the
\* PAGESIZE of its cursor.
PageBlockSizeRowsChecked(start_, cursor_, respond_) ==
    IF cursor_.present
    THEN IF /\ Len(cursor_.rows) = 1
            /\ respond_ # <<>>
            /\ Len(respond_[1].rows) # cursor_.rows[1].PAGESIZE
         THEN Raises(CursorError)
         ELSE CursorBlockSize(start_, cursor_.rows)
    ELSE IF respond_ = <<>> THEN Raises(EmptyPageError)
         ELSE Returns(Len(respond_[1].rows))

\* The block size of the page last yielded: from the cursor check when the
\* page came with a cursor table, else the length of the page's first table.
PageBlockSize(start_, cursor_, respond_) ==
    IF cursor_.present THEN CursorBlockSize(start_, cursor_.rows)
    ELSE IF respond_ = <<>> THEN Raises(EmptyPageError)
         ELSE Returns(Len(respond_[1].rows))

\* Mutant of start += block_size: start += 1 (pages counted, not rows).
AdvancedByOne(start_, block_size_) == start_ + 1

\* Mutant of start += block_size: start = block_size.
AdvancedTo(start_, block_size_) == block_size_

\* start += block_size
Advanced(start_, block_size_) == start_ + block_size_

\* Mutant of the resumption: the offset kept in one place for all sequences.
ResumeShared(i) ==
    /\ pc[i] = "next"
    /\ LET r == PageBlockSize(start[i], cursor_table[i], respond[i])
       IN  IF ~r.ok
           THEN /\ pc' = [pc EXCEPT ![i] = "failed"]
                /\ result' = [result EXCEPT ![i] = Failed(r.error)]
                /\ UNCHANGED <<start, block_size, gets>>
           ELSE IF r.value = 0
           THEN /\ pc' = [pc EXCEPT ![i] = "done"]
                /\ block_size' = [block_size EXCEPT ![i] = 0]
                /\ result' = [result EXCEPT ![i] = Returned(all_data[i])]
                /\ UNCHANGED <<start, gets>>
           ELSE /\ server[i].kind = "any" => Len(gets[i]) < MaxPages
                /\ server[i].kind = "endless" => Len(gets[i]) < MaxEndlessPages
                /\ pc' = [pc EXCEPT ![i] = "get"]
                /\ block_size' = [block_size EXCEPT ![i] = r.value]
                /\ start' = [j \in Seqs |-> Advanced(start[i], r.value)]
                /\ gets' = [gets EXCEPT ![i] = Append(@, MakeQuery(query[i], Advanced(start[i], r.value)))]
                /\ UNCHANGED result
    /\ UNCHANGED <<query, server, respond, cursor_table, all_data, pages, yielded, unit, fetch, extract>>

\* Mutant of the resumption: a failed block-size computation swallowed, and
\* what was gathered so far returned.
ResumePartial(i) ==
    /\ pc[i] = "next"
    /\ LET r == PageBlockSize(start[i], cursor_table[i], respond[i])
       IN  IF ~r.ok \/ r.value = 0
           THEN /\ pc' = [pc EXCEPT ![i] = IF r.ok THEN "done" ELSE "failed"]
                /\ block_size' = [block_size EXCEPT ![i] = IF r.ok THEN 0 ELSE @]
                /\ result' = [result EXCEPT ![i] = Returned(all_data[i])]
                /\ UNCHANGED <<start, gets>>
           ELSE /\ server[i].kind = "any" => Len(gets[i]) < MaxPages
                /\ server[i].kind = "endless" => Len(gets[i]) < MaxEndlessPages
                /\ pc' = [pc EXCEPT ![i] = "get"]
                /\ block_size' = [block_size EXCEPT ![i] = r.value]
                /\ start' = [start EXCEPT ![i] = Advanced(@, r.value)]
                /\ gets' = [gets EXCEPT ![i] = Append(@, MakeQuery(query[i], Advanced(start[i], r.value)))]
                /\ UNCHANGED result
    /\ UNCHANGED <<query, server, respond, cursor_table, all_data, pages, yielded, unit, fetch, extract>>

\* The generator is resumed after its yield: it computes the block size and
\* raises, returns (get_all then returns all_data) or issues the next GET.
Resume(i) ==
    /\ pc[i] = "next"
    /\ LET r == PageBlockSize(start[i], cursor_table[i], respond[i])
       IN  IF ~r.ok
           THEN /\ pc' = [pc EXCEPT ![i] = "failed"]
                /\ result' = [result EXCEPT ![i] = Failed(r.error)]
                /\ UNCHANGED <<start, block_size, gets>>
           ELSE IF r.value = 0
           THEN /\ pc' = [pc EXCEPT ![i] = "done"]
                /\ block_size' = [block_size EXCEPT ![i] = 0]
                /\ result' = [result EXCEPT ![i] = Returned(all_data[i])]
                /\ UNCHANGED <<start, gets>>
           ELSE /\ server[i].kind = "any" => Len(gets[i]) < MaxPages
                /\ server[i].kind = "endless" => Len(gets[i]) < MaxEndlessPages
                /\ pc' = [pc EXCEPT ![i] = "get"]
                /\ block_size' = [block_size EXCEPT ![i] = r.value]
                /\ start' = [start EXCEPT ![i] = Advanced(@, r.value)]
                /\ gets' = [gets EXCEPT ![i] = Append(@, MakeQuery(query[i], Advanced(start[i], r.value)))]
                /\ UNCHANGED result
    /\ UNCHANGED <<query, server, respond, cursor_table, all_data, pages, yielded, unit, fetch, extract>>

Step(i) ==
    \/ Construct(i)
    \/ Start(i)
    \/ GetOk(i)
    \/ GetFail(i)
    \/ Consume(i)
    \/ Resume(i)

\* One client running one get_all.
Next == Step("s1")

Spec == Init /\ [][Next]_vars

\* ------------------------------------- _cursor_block_size on its own
\* Most rows of a cursor table handed to _cursor_block_size.
MaxCursorRows == 2

CursorRows ==
    {CursorRow(i, t, p) : i \in 0..MaxStart, t \in 0..MaxTotal, p \in 0..MaxPageSize}

CursorTables ==
    UNION {[1..n -> CursorRows] : n \in 0..MaxCursorRows}

InitCursor ==
    /\ InitSeqs
    /\ fetch = NoFetch
    /\ extract = NoExtract
    /\ \E s \in 0..MaxStart, t \in CursorTables :
         unit = [start |-> s, cursor_table |-> t, called |-> FALSE, out |-> NotCalled]

CallCursorBlockSize ==
    /\ ~unit.called
    /\ unit' = [unit EXCEPT !.called = TRUE,
                            !.out = CursorBlockSize(unit.start, unit.cursor_table)]
    /\ UNCHANGED <<seqvars, fetch, extract>>

SpecCursor == InitCursor /\ [][CallCursorBlockSize]_vars

\* ----------------------------------- truthful cursor servers, fairly run
\* Every page's INDEX is the offset asked, TOTAL is constant, PAGESIZE > 0.
TruthfulCursor(srv) ==
    srv.kind = "cursor" /\ (Sum(srv.sizes) > 0 \/ srv.pagesize > 0)

NextTruthful ==
    \/ ConstructFrom("s1", {srv \in Servers : TruthfulCursor(srv)})
    \/ Start("s1")
    \/ GetOk("s1")
    \/ GetFail("s1")
    \/ Consume("s1")
    \/ Resume("s1")

\* The event loop runs whatever is ready, and an outstanding GET ends (httpx
\* answers or times out), so a step that stays possible is taken.
FairSpec == Init /\ [][NextTruthful]_vars /\ WF_vars(NextTruthful)

\* ------------------------------------------ get on its own, any query
\* The clients considered: any address, and base queries that also name the
\* parameters _make_query sets itself.
Urls == {"/iss/securities.json", "/iss/history.json"}
MetaOnQuery == ("iss.meta" :> "on")
CompactQuery == ("iss.json" :> "compact")
StartQuery == ("start" :> 1)
GetQueries == BaseQueries \cup {MetaOnQuery, CompactQuery, StartQuery}
Starts == {NoStart} \cup {Offset(n) : n \in 0..MaxStart}

\* The bodies a 2xx response may have: the extended JSON of ISS is a
\* two-element array, a metadata object and the mapping of tables.
Meta == JObject(<<>>)
GetPages ==
    {<<>>,
     <<Entry(DATA, Rows(DATA, 0, 1))>>,
     <<Entry(DATA, Rows(DATA, 0, 1)), Entry(CURSOR, <<CursorRow(0, 1, 1)>>)>>}
Elements == {JObject(p) : p \in GetPages} \cup {JNull, JNumber, JArray(<<>>)}
Bodies ==
    {JInvalid, JNull, JNumber, Meta, JArray(<<>>), JArray(<<Meta>>)}
    \cup {JArray(<<Meta, e>>) : e \in Elements}
    \cup {JArray(<<Meta, e, Meta>>) : e \in Elements}
    \cup {JArray(<<JNull, JObject(p)>>) : p \in GetPages}
StatusCodes == {200, 201, 301, 404, 500}
Responses == {Transport} \cup {Answer(c, b) : c \in StatusCodes, b \in Bodies}

\* await iss.get(start) on a fresh client, httpx doing any of Responses.
CallGet ==
    /\ ~fetch.called
    /\ \E u \in Urls, q \in GetQueries, s \in Starts, r \in Responses :
         LET g == Get(u, q, s, r)
         IN  fetch' = [url |-> u, query |-> q, start |-> s, response |-> r,
                       sent |-> g.sent, called |-> TRUE, out |-> g.out]
    /\ UNCHANGED <<seqvars, unit, extract>>

GetServers ==
    {Server(k, s, <<DATA>>, 0) :
        k \in {"cursor", "plain"}, s \in UNION {Compositions(t) : t \in 0..MaxPageSize}}

\* A client is used for one get, or for one get_all.
NextGet ==
    \/ pc["s1"] = "new" /\ CallGet
    \/ ~fetch.called /\ ConstructWith("s1", GetServers, GetQueries)
    \/ Start("s1")
    \/ GetOk("s1")
    \/ GetFail("s1")
    \/ Consume("s1")
    \/ Resume("s1")

SpecGet == Init /\ [][NextGet]_vars

\* ------------------------------------------------ get_table on its own
\* raise ISSMoexError(f"Table {table_name} is missing in the data")
MissingTableError(table_name_) ==
    [type |-> "ISSMoexError", msg |-> "Table is missing in the data", table |-> table_name_]

\* Mutant of get_table: table_dict.get(table_name, []) in place of the lookup.
GetTableOrEmpty(table_dict_, table_name_) ==
    IF HasTable(table_dict_, table_name_)
    THEN Returns(TableOf(table_dict_, table_name_))
    ELSE Returns(<<>>)

\* get_table(table_dict, table_name)
GetTable(table_dict_, table_name_) ==
    IF HasTable(table_dict_, table_name_)
    THEN Returns(TableOf(table_dict_, table_name_))
    ELSE Raises(MissingTableError(table_name_))

\* The tables and dicts get_table is called with: tables of up to MaxPageSize
\* rows in any order, dicts of the tables data and extra in either order, and
\* any of three names asked for.
SomeTables == UNION {[1..n -> {Row(k) : k \in 1..MaxPageSize}] : n \in 0..MaxPageSize}
TableDicts ==
    {<<>>}
    \cup {<<Entry(n, t)>> : n \in {DATA, EXTRA}, t \in SomeTables}
    \cup {<<Entry(DATA, t), Entry(EXTRA, u)>> : t \in SomeTables, u \in SomeTables}
    \cup {<<Entry(EXTRA, t), Entry(DATA, u)>> : t \in SomeTables, u \in SomeTables}
TableNames == {DATA, EXTRA, CURSOR}

InitTable ==
    /\ InitSeqs
    /\ unit = NoCall
    /\ fetch = NoFetch
    /\ \E d \in TableDicts, n \in TableNames :
         extract = [table_dict |-> d, table_name |-> n, called |-> FALSE, out |-> NotCalled]

CallGetTable ==
    /\ ~extract.called
    /\ extract' = [extract EXCEPT !.called = TRUE,
                                  !.out = GetTable(extract.table_dict, extract.table_name)]
    /\ UNCHANGED <<seqvars, unit, fetch>>

SpecTable == InitTable /\ [][CallGetTable]_vars

\* ------------------------------------- an endless server, fairly run
\* A cursor-less endpoint that answers every offset with a non-empty table,
\* and always answers.
Endless == Server("endless", <<>>, <<DATA>>, 0)

NextEndless ==
    \/ ConstructFrom("s1", {Endless})
    \/ Start("s1")
    \/ GetOk("s1")
    \/ Consume("s1")
    \/ Resume("s1")

\* The event loop runs whatever is ready and the server answers every GET.
FairEndless == Init /\ [][NextEndless]_vars /\ WF_vars(NextEndless)

\* --------------------------- two clients, their sequences interleaved
\* Each sequence has its own client (its own server and base query); the
\* steps of the two interleave in any order.
StepOf(i) ==
    \/ ConstructFrom(i, GetServers)
    \/ Start(i)
    \/ GetOk(i)
    \/ GetFail(i)
    \/ Consume(i)
    \/ Resume(i)

NextPair == \E i \in Seqs : StepOf(i)

SpecPair == Init /\ [][NextPair]_vars

\* ----------------------- one client, two iterations and gets in between
\* One client is constructed; both iterations are made from it.
ConstructShared ==
    /\ \A i \in Seqs : pc[i] = "new"
    /\ \E srv \in GetServers, q \in BaseQueries :
         /\ server' = [i \in Seqs |-> srv]
         /\ query' = [i \in Seqs |-> q]
    /\ pc' = [i \in Seqs |-> "idle"]
    /\ UNCHANGED <<start, respond, cursor_table, block_size, all_data, result, gets, pages,
                   yielded, unit, fetch, extract>>

SharedUrl == "/iss/history.json"

\* await iss.get(start) on the client of the iterations, at any time: the
\* server answers with its page at that offset, or the request fails.
GetBetween ==
    /\ pc["s1"] # "new"
    /\ \E s \in Starts :
         \E r \in {Transport}
                  \cup {Answer(200, JArray(<<Meta, JObject(p)>>)) :
                          p \in ServerPages(server["s1"],
                                            WireStart(MakeQueryOf(query["s1"], s)))} :
            LET g == Get(SharedUrl, query["s1"], s, r)
            IN  fetch' = [url |-> SharedUrl, query |-> query["s1"], start |-> s,
                          response |-> r, sent |-> g.sent, called |-> TRUE, out |-> g.out]
    /\ UNCHANGED <<seqvars, unit, extract>>

NextShared ==
    \/ ConstructShared
    \/ GetBetween
    \/ \E i \in Seqs : Start(i) \/ GetOk(i) \/ GetFail(i) \/ Consume(i) \/ Resume(i)

SpecShared == Init /\ [][NextShared]_vars

\* ------------------------------------------------------------- claims
\* The offsets of the GETs a sequence issued, as the server reads them.
Offsets(i) == [k \in DOMAIN gets[i] |-> WireStart(gets[i][k])]

\* C1: against a truthful cursor server that serves T > 0 rows in pages of P
\* rows (the last one shorter), no more than ceil(T/P) GETs are ever issued,
\* and when get_all returns exactly ceil(T/P) pages were fetched and yielded,
\* at the offsets 0, P, 2P, ..., and the aggregated data table holds exactly
\* the T rows in page order; for T = 250 and P = 100 these are the offsets
\* 0, 100, 200, three pages and 250 rows.
C1_TruthfulCursorPages ==
    \A i \in Seqs :
        LET srv == server[i]
            T == Sum(srv.sizes)
        IN  \A P \in 1..T :
              (pc[i] \notin {"new", "idle"} /\ srv.kind = "cursor" /\ srv.sizes = Uniform(T, P))
              => /\ Len(gets[i]) <= CeilDiv(T, P)
                 /\ pc[i] = "done"
                    => /\ Len(gets[i]) = CeilDiv(T, P)
                       /\ Len(yielded[i]) = CeilDiv(T, P)
                       /\ Offsets(i) = [k \in 1..CeilDiv(T, P) |-> (k - 1) * P]
                       /\ result[i].kind = "returned"
                       /\ TableOf(result[i].value, DATA) = Rows(DATA, 0, T)
                       /\ srv.sizes = Scenario250
                          => /\ Offsets(i) = <<0, 100, 200>>
                             /\ Len(yielded[i]) = 3
                             /\ Len(TableOf(result[i].value, DATA)) = 250

\* C1 witness: get_all has returned against the 250-row server.
C1_Witness ==
    /\ pc["s1"] = "done"
    /\ server["s1"].kind = "cursor"
    /\ server["s1"].sizes = Scenario250
    /\ server["s1"].pagesize = 0
    /\ Len(TableOf(result["s1"].value, DATA)) = 250

\* C2: a call of _cursor_block_size on a one-row cursor table whose INDEX is
\* start returns PAGESIZE when INDEX + PAGESIZE < TOTAL, and 0 otherwise.
C2_BlockSizeOfValidCursor ==
    (unit.called /\ Len(unit.cursor_table) = 1 /\ unit.cursor_table[1].INDEX = unit.start)
    => LET c == unit.cursor_table[1]
       IN  /\ unit.out.ok
           /\ c.INDEX + c.PAGESIZE < c.TOTAL => unit.out.value = c.PAGESIZE
           /\ c.INDEX + c.PAGESIZE >= c.TOTAL => unit.out.value = 0

\* C2 witness: a page that ends exactly at TOTAL was judged to be the last.
C2_Witness ==
    /\ unit.called
    /\ unit.cursor_table = <<CursorRow(unit.start, unit.start + MaxPageSize, MaxPageSize)>>
    /\ unit.out = Returns(0)

\* C3 (as claimed): a call of _cursor_block_size on a cursor table that has
\* not exactly one row, or whose one row has an INDEX other than start, raises
\* ISSMoexError and returns no block size.
C3_AlwaysCursorError ==
    (unit.called /\ (Len(unit.cursor_table) # 1 \/ unit.cursor_table[1].INDEX # unit.start))
    => (~unit.out.ok /\ unit.out.error.type = "ISSMoexError")

\* The cursor-less server holding a single table of five rows.
FiveRows == Server("plain", <<5>>, <<DATA>>, 0)

\* C4 (as claimed): against the cursor-less server holding one 5-row table,
\* the sequence has yielded exactly one page when it terminates.
C4_OnePage ==
    \A i \in Seqs :
        (pc[i] = "done" /\ server[i] = FiveRows) => Len(yielded[i]) = 1

\* C4 (amended): against that server the sequence issues exactly two GETs, at
\* the offsets 0 and 5, and yields exactly two pages, the 5-row page and then
\* the empty page, before it terminates; get_all returns the five rows.
C4_TwoPages ==
    \A i \in Seqs :
        (pc[i] \notin {"new", "idle"} /\ server[i] = FiveRows)
        => /\ Len(gets[i]) <= 2
           /\ pc[i] = "done"
              => /\ Offsets(i) = <<0, 5>>
                 /\ yielded[i] = <<<<Entry(DATA, Rows(DATA, 0, 5))>>, <<Entry(DATA, <<>>)>>>>
                 /\ result[i] = Returned(<<Entry(DATA, Rows(DATA, 0, 5))>>)

\* C4 witness: the sequence against the 5-row server has terminated.
C4_Witness ==
    /\ pc["s1"] = "done"
    /\ server["s1"] = FiveRows
    /\ Len(yielded["s1"]) = 2

\* What get_all returns when the server's whole dataset comes as one page.
InOnePage(srv) ==
    LET whole == Server(srv.kind, <<Sum(srv.sizes)>>, srv.names, 0)
    IN  Merged(<<>>, Popped(TruthfulPage(whole, 0), CURSOR))

\* C5: whatever the split of a dataset into consecutive non-empty pages a
\* truthful server serves, get_all returns for every table the rows it returns
\* when the whole dataset comes in a single page: all the rows of the table, in
\* their order in the dataset.
C5_PartitionIndependent ==
    \A i \in Seqs :
        (pc[i] = "done" /\ server[i].kind \in {"cursor", "plain"})
        => /\ result[i].kind = "returned"
           /\ result[i].value = InOnePage(server[i])
           /\ result[i].value =
                [k \in DOMAIN server[i].names |->
                    Entry(server[i].names[k],
                          Rows(server[i].names[k], 0, Sum(server[i].sizes)))]

\* C5 witness: get_all has returned two tables that came in three pages of
\* different sizes.
C5_Witness ==
    /\ pc["s1"] = "done"
    /\ server["s1"] = Server("cursor", <<2, 1, 2>>, <<DATA, EXTRA>>, 0)
    /\ Len(yielded["s1"]) = 3
    /\ result["s1"].kind = "returned"

\* The pages a truthful server's dataset needs (one, when it holds no rows).
PagesNeeded(srv) == IF srv.sizes = <<>> THEN 1 ELSE Len(srv.sizes)

\* C6: against a truthful cursor server a sequence whose GET is outstanding
\* eventually ends, by the failure of a fetch or by returning with block size 0
\* right after the page that holds the last rows of the data; and once it
\* has returned no further GET is issued and no further page is yielded.
C6_Terminates ==
    /\ \A i \in Seqs :
          (pc[i] = "get" /\ TruthfulCursor(server[i]))
          ~> \/ pc[i] = "failed" /\ result[i].error \in FetchErrors
             \/ /\ pc[i] = "done"
                /\ block_size[i] = 0
                /\ Len(gets[i]) = PagesNeeded(server[i])
                /\ start[i] + Len(respond[i][1].rows) = Sum(server[i].sizes)
    /\ [][\A i \in Seqs :
            pc[i] = "done" => (pc'[i] = "done" /\ gets'[i] = gets[i] /\ yielded'[i] = yielded[i])]_vars

\* C6 witness: a sequence over five rows in five pages has returned.
C6_Witness ==
    /\ pc["s1"] = "done"
    /\ server["s1"] = Server("cursor", <<1, 1, 1, 1, 1>>, <<DATA>>, 1)
    /\ block_size["s1"] = 0
    /\ start["s1"] = 4

\* The first page came with a one-row cursor INDEX = 0, TOTAL = PAGESIZE.
FirstPageIsAll(i) ==
    /\ Len(pages[i]) >= 1
    /\ HasTable(pages[i][1], CURSOR)
    /\ LET t == TableOf(pages[i][1], CURSOR)
       IN  Len(t) = 1 /\ t[1].INDEX = 0 /\ t[1].TOTAL = t[1].PAGESIZE

\* C7: when the first page's cursor reports INDEX = 0 and TOTAL = PAGESIZE,
\* exactly one GET is issued and exactly one page is yielded, no error is
\* raised, and get_all returns what that page held.
C7_OnePageSequence ==
    \A i \in Seqs :
        FirstPageIsAll(i)
        => /\ Len(gets[i]) = 1
           /\ Len(yielded[i]) = 1
           /\ pc[i] \in {"yield", "next", "done"}
           /\ result[i].kind # "raised"
           /\ pc[i] = "done" => result[i] = Returned(Merged(<<>>, yielded[i][1]))

\* C7 witness: such a sequence against an untrusted server has ended.
C7_Witness ==
    /\ pc["s1"] = "done"
    /\ server["s1"].kind = "any"
    /\ FirstPageIsAll("s1")
    /\ TableOf(pages["s1"][1], CURSOR)[1].PAGESIZE = MaxPageSize

\* A page without cursor table whose single table is empty.
EmptyPlainPage(p) == Len(p) = 1 /\ p[1].name # CURSOR /\ p[1].rows = <<>>

\* C8: a fetched page without cursor table whose single table is empty is
\* yielded as it is and is the last of its sequence, wherever it occurs: no
\* GET and no page follows it, and the sequence ends without error.
C8_EmptyPageEnds ==
    \A i \in Seqs : \A k \in DOMAIN pages[i] :
        EmptyPlainPage(pages[i][k])
        => /\ k = Len(pages[i])
           /\ Len(gets[i]) = k
           /\ Len(yielded[i]) = k
           /\ yielded[i][k] = pages[i][k]
           /\ pc[i] \in {"yield", "next", "done"}

\* C8 witness: an untrusted server's first page was not empty, a later one
\* was, and the sequence has ended.
C8_Witness ==
    /\ pc["s1"] = "done"
    /\ server["s1"].kind = "any"
    /\ Len(pages["s1"]) = MaxPages
    /\ EmptyPlainPage(pages["s1"][MaxPages])

C10_NoPartialResult ==
    \A i \in Seqs :
        /\ result[i].kind = "returned"
           => (pc[i] = "done" /\ block_size[i] = 0 /\ result[i].value = all_data[i])
        /\ pc[i] = "done" => result[i].kind = "returned"
        /\ pc[i] = "failed"
           => /\ result[i].kind = "raised"
              /\ result[i].value = <<>>
              /\ IF Len(yielded[i]) < Len(gets[i])
                 THEN result[i].error \in FetchErrors
                 ELSE result[i].error \in {CursorError, UnpackError, EmptyPageError}
        /\ pc[i] \notin {"done", "failed"} => result[i].kind = "pending"

\* C10 witness: the third fetch failed after two pages had been merged.
C10_Witness ==
    /\ pc["s1"] = "failed"
    /\ result["s1"] = Failed(HTTPError)
    /\ Len(yielded["s1"]) = 2
    /\ Len(gets["s1"]) = 3
    /\ all_data["s1"] # <<>>

\* The one request of the get called on its own.
Sent == fetch.sent[1]

\* C11: get classifies the failures of its fetch and never retries: a
\* transport failure gives the connection error and a status other than 2xx
\* the HTTP error, each an ISSMoexError carrying the URL of the request, and
\* whatever the outcome exactly one GET was sent, to the client's address.
C11_FailuresClassifiedOneGet ==
    fetch.called
    => /\ Len(fetch.sent) = 1
       /\ Sent.url = fetch.url
       /\ fetch.response.kind = "transport"
          => /\ ~fetch.out.ok
             /\ fetch.out.error =
                  [type |-> "ISSMoexError", msg |-> "Connection error", url |-> Sent]
       /\ (fetch.response.kind = "answer" /\ fetch.response.status \notin 200..299)
          => /\ ~fetch.out.ok
             /\ fetch.out.error =
                  [type |-> "ISSMoexError", msg |-> "HTTP error", url |-> Sent]

\* C11 witness: a get whose request failed in transport has raised.
C11_Witness ==
    /\ fetch.called
    /\ fetch.response.kind = "transport"
    /\ fetch.out.error.msg = "Connection error"
    /\ Len(fetch.sent) = 1

\* A body that is a two-element array with a mapping of tables as element 1.
WellFormed(body_) ==
    /\ body_.json = "array"
    /\ Len(body_.items) = 2
    /\ body_.items[2].json = "object"

\* C12: a 2xx response whose body is not a two-element array with a mapping
\* of tables as element 1 makes get fail with an ISSMoexError.
C12_MalformedBodyClassified ==
    (/\ fetch.called
     /\ fetch.response.kind = "answer"
     /\ IsSuccess(fetch.response.status)
     /\ ~WellFormed(fetch.response.body))
    => /\ ~fetch.out.ok
       /\ fetch.out.error.type = "ISSMoexError"

\* The fixed pair is among the parameters.
HasFixedPair(params_) ==
    /\ "iss.json" \in DOMAIN params_ /\ params_["iss.json"] = "extended"
    /\ "iss.meta" \in DOMAIN params_ /\ params_["iss.meta"] = "off"

\* C14: every GET the client issues, alone or in a sequence, carries
\* iss.json=extended and iss.meta=off, whatever the base query of the client.
C14_FixedPairAlways ==
    /\ fetch.called => HasFixedPair(Sent.params)
    /\ \A i \in Seqs : \A k \in DOMAIN gets[i] : HasFixedPair(gets[i][k])

\* The parameters carry start exactly when the offset is not zero, and then
\* start is the offset.
StartSent(params_, offset_) ==
    IF offset_ # 0
    THEN "start" \in DOMAIN params_ /\ params_["start"] = offset_
    ELSE "start" \notin DOMAIN params_

\* The offset asked of get: None is no offset.
Asked == IF fetch.start.none THEN 0 ELSE fetch.start.value

\* What C15 says of a client whose base query is query_.
StartIffOffset(i, query_) ==
    /\ (fetch.called /\ fetch.query = query_)
       => /\ StartSent(Sent.params, Asked)
          /\ Asked = 0 => /\ Sent.params = MakeQueryOf(query_, NoStart)
                          /\ Sent.params = MakeQueryOf(query_, Offset(0))
    /\ (Len(gets[i]) > 0 /\ query[i] = query_)
       => /\ "start" \notin DOMAIN gets[i][1]
          /\ StartSent(gets[i][Len(gets[i])], start[i])

C13_TableOrMissingError ==
    [][(~extract.called /\ extract'.called)
       => LET d == extract.table_dict
              n == extract.table_name
              out == extract'.out
          IN  /\ extract'.table_dict = d
              /\ \A k \in DOMAIN d :
                   d[k].name = n
                   => out = [ok |-> TRUE, value |-> d[k].rows, error |-> NoError]
              /\ (\A k \in DOMAIN d : d[k].name # n)
                 => /\ ~out.ok
                    /\ out.error.type = "ISSMoexError"
                    /\ out.error.table = n]_vars

\* C13 witness: both outcomes are possible on a dict of two tables: here the
\* second table was asked for and returned with its two rows in their order.
C13_Witness ==
    /\ extract.called
    /\ Len(extract.table_dict) = 2
    /\ extract.table_dict[2].name = extract.table_name
    /\ Len(extract.table_dict[2].rows) = 2
    /\ extract.table_dict[2].rows[1] # extract.table_dict[2].rows[2]
    /\ extract.out.ok
    /\ extract.out.value = extract.table_dict[2].rows

\* The offset of the k-th GET of a sequence, as the server reads it.
OffsetOf(i, k) == WireStart(gets[i][k])

\* The block size the generator computes for the k-th page it fetched.
BlockSizeOf(i, k) ==
    LET page == pages[i][k]
    IN  IF HasTable(page, CURSOR)
        THEN PageBlockSize(OffsetOf(i, k), Some(TableOf(page, CURSOR)), Popped(page, CURSOR))
        ELSE PageBlockSize(OffsetOf(i, k), None, page)

\* C16 in a state: the first GET is at offset 0; the GET of page N+1 is at
\* the sum of the block sizes of the pages 1..N, all of them yielded; and no
\* GET is outstanding but the last one, while the generator awaits it.
C16_Sequential ==
    \A i \in Seqs :
        /\ Len(gets[i]) > 0 => OffsetOf(i, 1) = 0
        /\ \A n \in 1..(Len(gets[i]) - 1) :
             /\ n <= Len(yielded[i])
             /\ OffsetOf(i, n + 1) = Sum([k \in 1..n |-> BlockSizeOf(i, k).value])
        /\ pc[i] = "get" => Len(gets[i]) = Len(yielded[i]) + 1
        /\ pc[i] \in {"yield", "next", "done"} => Len(gets[i]) = Len(yielded[i])

\* C16 in a step: a GET after the first is issued only by the generator
\* resumed after the page before was yielded and handled, with that page's
\* block size computed and added to the offset.
C16_IssuedAfterYield ==
    \A i \in Seqs :
        (gets'[i] # gets[i] /\ Len(gets[i]) > 0)
        => /\ pc[i] = "next"
           /\ Len(yielded[i]) = Len(gets[i])
           /\ block_size'[i] = BlockSizeOf(i, Len(gets[i])).value
           /\ start'[i] = start[i] + block_size'[i]
           /\ gets'[i] = Append(gets[i], gets'[i][Len(gets'[i])])
           /\ WireStart(gets'[i][Len(gets'[i])]) = start'[i]

\* C16: the pages of a sequence are fetched strictly one after the other, at
\* offsets derived from the block sizes: the first at 0, the next only after
\* the page before was yielded and its block size computed, at the sum of
\* the block sizes so far, and never two GETs outstanding.
C16_StrictSequence == [](C16_Sequential) /\ [][C16_IssuedAfterYield]_vars

\* C16 witness: three GETs at 0, 2 and 3 after pages of block size 2 and 1.
C16_Witness ==
    /\ pc["s1"] = "done"
    /\ Offsets("s1") = <<0, 2, 3>>
    /\ Len(yielded["s1"]) = 3

\* C17 in a state: every page yielded was fetched; a GET without its page is
\* outstanding or has failed, and then the sequence has failed with a fetch
\* error handed to the caller.
C17_FailedFetchNoPage ==
    \A i \in Seqs :
        /\ Len(yielded[i]) = Len(pages[i])
        /\ Len(pages[i]) < Len(gets[i])
           => \/ pc[i] = "get"
              \/ /\ pc[i] = "failed"
                 /\ result[i].kind = "raised"
                 /\ result[i].error \in FetchErrors

\* C17 in a step: a sequence that has failed issues no GET and yields no page.
C17_FailedStaysFailed ==
    \A i \in Seqs :
        pc[i] = "failed"
        => /\ pc'[i] = "failed"
           /\ gets'[i] = gets[i]
           /\ yielded'[i] = yielded[i]
           /\ result'[i] = result[i]

\* C17: a fetch failure inside a sequence ends the sequence with that error:
\* the caller gets it, no page is yielded for the failed fetch, and no GET and
\* no page follows.
C17_FetchFailureEnds == [](C17_FailedFetchNoPage) /\ [][C17_FailedStaysFailed]_vars

\* C17 witness: the second fetch of a sequence failed with the HTTP error.
C17_Witness ==
    /\ pc["s1"] = "failed"
    /\ Len(gets["s1"]) = 2
    /\ Len(yielded["s1"]) = 1
    /\ result["s1"] = Failed(HTTPError)

\* The generator is past the block size of the k-th page it fetched.
Processed(i, k) ==
    \/ k < Len(gets[i])
    \/ pc[i] = "done"
    \/ pc[i] = "failed" /\ Len(gets[i]) = Len(pages[i])

\* C18: a page without a cursor table that does not hold exactly one table
\* (none, or two or more) makes the sequence fail with an error once its
\* block size is wanted.
C18_OneTableOrError ==
    \A i \in Seqs : \A k \in DOMAIN pages[i] :
        (~HasTable(pages[i][k], CURSOR) /\ Len(pages[i][k]) # 1 /\ Processed(i, k))
        => /\ k = Len(gets[i])
           /\ pc[i] = "failed"
           /\ result[i].kind = "raised"

\* The block size the shape of a page asks for: the cursor check for a page
\* with a cursor table, the length of the table for a page of one table.
ShapeBlockSize(i, k) ==
    LET page == pages[i][k]
    IN  IF HasTable(page, CURSOR)
        THEN CursorBlockSize(OffsetOf(i, k), TableOf(page, CURSOR))
        ELSE Returns(Len(page[1].rows))

\* C19: the shape is detected on every page, whatever the pages before: once
\* the generator is past a page that has a cursor table or is one table, the
\* sequence went on, ended or failed as the block size of that page's own
\* shape says.
C19_ShapePerPage ==
    \A i \in Seqs : \A k \in DOMAIN pages[i] :
        ((HasTable(pages[i][k], CURSOR) \/ Len(pages[i][k]) = 1) /\ Processed(i, k))
        => LET e == ShapeBlockSize(i, k)
           IN  /\ (e.ok /\ e.value > 0)
                  => k < Len(gets[i]) /\ OffsetOf(i, k + 1) = OffsetOf(i, k) + e.value
               /\ (e.ok /\ e.value = 0)
                  => k = Len(gets[i]) /\ pc[i] = "done"
               /\ ~e.ok
                  => /\ k = Len(gets[i])
                     /\ pc[i] = "failed"
                     /\ result[i] = Failed(e.error)

\* C19 witness: a sequence of a page with a cursor table, then a page without.
C19_Witness ==
    /\ pc["s1"] = "done"
    /\ Len(pages["s1"]) = 2
    /\ HasTable(pages["s1"][1], CURSOR)
    /\ ~HasTable(pages["s1"][2], CURSOR)
    /\ Len(pages["s1"][2]) = 1

\* C20 in a state: against the endless server the sequence has not ended and
\* get_all has not returned; the offsets grow and every answered GET gave a
\* page to the consumer.
C20_StillRunning ==
    /\ pc["s1"] \notin {"done", "failed"}
    /\ result["s1"] = Pending
    /\ \A k \in 1..(Len(gets["s1"]) - 1) : OffsetOf("s1", k) < OffsetOf("s1", k + 1)
    /\ Len(yielded["s1"]) >= Len(gets["s1"]) - 1

\* C20: against a cursor-less server that answers every offset with a
\* non-empty table the sequence never ends: it goes on to any number of GETs
\* (here: as many as the model follows) at growing offsets, yields a page for
\* each, and get_all never returns.
C20_NeverTerminates ==
    [](C20_StillRunning) /\ <>(Len(gets["s1"]) = MaxEndlessPages)

\* C20 witness: the last GET the model follows is out, at an offset beyond
\* the rows of all the pages before.
C20_Witness ==
    /\ pc["s1"] = "get"
    /\ server["s1"] = Endless
    /\ Len(gets["s1"]) = MaxEndlessPages
    /\ Len(yielded["s1"]) = MaxEndlessPages - 1
    /\ start["s1"] >= MaxEndlessPages - 1

\* The k-th page fetched has a cursor table that fails the check for its
\* rows: more than one row, or an INDEX that is not the offset asked.
BadCursor(i, k) ==
    /\ HasTable(pages[i][k], CURSOR)
    /\ LET c == TableOf(pages[i][k], CURSOR)
       IN  \/ Len(c) > 1
           \/ Len(c) = 1 /\ c[1].INDEX # OffsetOf(i, k)

\* C22: a page with a cursor table is yielded before its cursor is checked:
\* a page whose cursor has more than one row or an INDEX other than the
\* offset asked reaches the caller with its tables (the cursor table taken
\* out) while nothing has failed yet; once the caller asks for the next page
\* the sequence has failed with the cursor error, and no GET was issued after
\* that page.
C22_YieldedThenCursorError ==
    \A i \in Seqs : \A k \in DOMAIN pages[i] :
        BadCursor(i, k)
        => /\ k <= Len(yielded[i])
           /\ yielded[i][k] = Popped(pages[i][k], CURSOR)
           /\ k = Len(gets[i])
           /\ pc[i] \in {"yield", "next", "failed"}
           /\ pc[i] \in {"yield", "next"} => result[i] = Pending
           /\ pc[i] = "failed" => result[i] = Failed(CursorError)

\* C22 witness: the second page, with a row of data and a cursor of two rows,
\* was yielded and the sequence then failed.
C22_Witness ==
    /\ pc["s1"] = "failed"
    /\ Len(pages["s1"]) = 2
    /\ BadCursor("s1", 2)
    /\ Len(TableOf(pages["s1"][2], CURSOR)) = 2
    /\ HasTable(yielded["s1"][2], DATA)
    /\ Len(TableOf(yielded["s1"][2], DATA)) > 0
    /\ result["s1"] = Failed(CursorError)

\* The k-th page fetched has a cursor table of one row whose INDEX is the
\* offset asked.
GoodCursor(i, k) ==
    /\ HasTable(pages[i][k], CURSOR)
    /\ Len(TableOf(pages[i][k], CURSOR)) = 1
    /\ TableOf(pages[i][k], CURSOR)[1].INDEX = OffsetOf(i, k)

\* C24: the cursor drives the pagination and the rows are never counted
\* against it: past a page whose one-row cursor has the INDEX asked, the
\* sequence has ended normally when PAGESIZE is 0 or INDEX + PAGESIZE reaches
\* TOTAL, and else has gone on PAGESIZE further, whatever tables and rows the
\* page holds; so a sequence ends without error also with PAGESIZE = 0 and
\* INDEX < TOTAL.
C24_CursorNotRows ==
    \A i \in Seqs : \A k \in DOMAIN pages[i] :
        (GoodCursor(i, k) /\ Processed(i, k))
        => LET c == TableOf(pages[i][k], CURSOR)[1]
           IN  IF c.PAGESIZE = 0 \/ c.INDEX + c.PAGESIZE >= c.TOTAL
               THEN /\ k = Len(gets[i])
                    /\ pc[i] = "done"
                    /\ result[i].kind = "returned"
               ELSE /\ k < Len(gets[i])
                    /\ OffsetOf(i, k + 1) = OffsetOf(i, k) + c.PAGESIZE

\* C24 witness: get_all has returned after a page of PAGESIZE 0 with
\* INDEX < TOTAL, and its data table is not TOTAL rows long.
C24_Witness ==
    /\ pc["s1"] = "done"
    /\ result["s1"].kind = "returned"
    /\ LET k == Len(pages["s1"])
           c == TableOf(pages["s1"][k], CURSOR)[1]
       IN  /\ GoodCursor("s1", k)
           /\ c.PAGESIZE = 0
           /\ c.INDEX < c.TOTAL
           /\ HasTable(result["s1"].value, DATA)
           /\ Len(TableOf(result["s1"].value, DATA)) # c.TOTAL
           /\ HasTable(pages["s1"][k], DATA)
           /\ Len(TableOf(pages["s1"][k], DATA)) # c.PAGESIZE

\* What a sequence running alone does from the offset start_ on when its
\* GETs are answered with the pages ps_, in this order: the GETs it issues,
\* the pages it yields and how it stands after the last of them ("more": the
\* next GET is out).
RECURSIVE Alone(_, _, _)
Alone(query_, ps_, start_) ==
    LET get == <<MakeQuery(query_, start_)>>
    IN  IF ps_ = <<>>
        THEN [gets |-> get, yielded |-> <<>>, end |-> "more", error |-> NoError]
        ELSE LET page == Head(ps_)
                 cursor == IF HasTable(page, CURSOR) THEN Some(TableOf(page, CURSOR)) ELSE None
                 rest == IF cursor.present THEN Popped(page, CURSOR) ELSE page
                 r == PageBlockSize(start_, cursor, rest)
             IN  IF ~r.ok
                 THEN [gets |-> get, yielded |-> <<rest>>, end |-> "failed", error |-> r.error]
                 ELSE IF r.value = 0
                 THEN [gets |-> get, yielded |-> <<rest>>, end |-> "done", error |-> NoError]
                 ELSE LET a == Alone(query_, Tail(ps_), Advanced(start_, r.value))
                      IN  [gets |-> get \o a.gets, yielded |-> <<rest>> \o a.yielded,
                           end |-> a.end, error |-> a.error]

\* The sequence stands as it would running alone on the answers it got.
AsAlone(i) ==
    pc[i] \notin {"new", "idle"}
    => LET a == Alone(query[i], pages[i], 0)
       IN  /\ yielded[i] = a.yielded
           /\ gets[i] = SubSeq(a.gets, 1, Len(gets[i]))
           /\ pc[i] \in {"yield", "next"} => Len(gets[i]) = Len(pages[i])
           /\ pc[i] = "get" => gets[i] = a.gets /\ a.end = "more"
           /\ pc[i] = "done"
              => gets[i] = a.gets /\ a.end = "done" /\ result[i].kind = "returned"
           /\ pc[i] = "failed"
              => /\ gets[i] = a.gets
                 /\ \/ a.end = "more" /\ result[i].kind = "raised"
                                      /\ result[i].error \in FetchErrors
                    \/ a.end = "failed" /\ result[i] = Failed(a.error)

\* All that belongs to one sequence.
Local(i) ==
    <<pc[i], query[i], server[i], start[i], respond[i], cursor_table[i], block_size[i],
      all_data[i], result[i], gets[i], pages[i], yielded[i]>>

\* A step is a step of one sequence and leaves the other as it is.
C21_OneAtATime ==
    \E i \in Seqs : \A j \in Seqs \ {i} : Local(j)' = Local(j)

\* C21: sequences of separate clients that run concurrently are independent:
\* however their steps interleave, each issues the GETs, yields the pages and
\* ends (normally or with an error) as it does alone on the same answers, and
\* no step of one changes anything of the other.
C21_Independent == [](\A i \in Seqs : AsAlone(i)) /\ [][C21_OneAtATime]_vars

\* C21 witness: both sequences are in flight at their second GET, against
\* different servers.
C21_Witness ==
    /\ pc["s1"] = "get"
    /\ Len(gets["s1"]) = 2
    /\ pc["s2"] = "next"
    /\ Len(gets["s2"]) = 2
    /\ server["s1"] # server["s2"]
    /\ start["s1"] # start["s2"]

\* C23 in a step: an iteration begins at offset 0 and its beginning leaves
\* the other iteration as it is; a get in between leaves both as they are;
\* an iteration that moves its offset does not move the other's.
C23_LocalOffset ==
    /\ \A i \in Seqs :
         (pc[i] = "idle" /\ pc'[i] # "idle")
         => /\ start'[i] = 0
            /\ Len(gets'[i]) = 1
            /\ WireStart(gets'[i][1]) = 0
            /\ \A j \in Seqs \ {i} : Local(j)' = Local(j)
    /\ fetch' # fetch => \A j \in Seqs : Local(j)' = Local(j)
    /\ \A i \in Seqs :
         start'[i] # start[i] => \A j \in Seqs \ {i} : start'[j] = start[j]

\* C23: the offset belongs to the iteration, not to the client: every
\* iteration of a client begins at offset 0, two interleaved iterations of
\* one client each advance as an iteration running alone does, and a get
\* called in between changes the offset of neither.
C23_OffsetPerIteration ==
    [](\A i \in Seqs : server[i] = server["s1"] /\ query[i] = query["s1"] /\ AsAlone(i))
    /\ [][C23_LocalOffset]_vars

\* C23 witness: on one client, an iteration is two GETs on at a positive
\* offset, the other has just begun at offset 0, and a get with a positive
\* start was called.
C23_Witness ==
    /\ pc["s1"] = "next"
    /\ Len(gets["s1"]) = 2
    /\ start["s1"] > 0
    /\ pc["s2"] = "get"
    /\ Len(gets["s2"]) = 1
    /\ start["s2"] = 0
    /\ fetch.called
    /\ Truthy(fetch.start)

====
